---- MODULE Spec2Model ----
(***************************************************************************)
(* A model of BitVecSimd<B, L> (src/src/lib.rs): a growable bit vector     *)
(* stored as a sequence of blocks of LANES lanes, each lane an unsigned    *)
(* integer of ELEMENT_BIT_WIDTH bits, together with its bit count nbits.   *)
(*                                                                         *)
(* The container is generic over the block shape; the model instantiates   *)
(* it with a small shape so that every vector up to MaxBits bits can be    *)
(* enumerated.  Lanes are naturals below 2^ELEMENT_BIT_WIDTH and every     *)
(* shift is the wrapping shift of the lane type (the shift amount is taken *)
(* modulo the lane width), as in the code.                                 *)
(*                                                                         *)
(* Rust indexes from 0, TLA+ sequences from 1: arr[k] in the code is       *)
(* arr[k + 1] here, storage[i] is storage[i + 1].                          *)
(***************************************************************************)
EXTENDS Integers, Sequences, FiniteSets

\* ------------------------------------------------------------------ bounds
\* B::ELEMENT_BIT_WIDTH of the instantiated block shape (bits per lane).
ELEMENT_BIT_WIDTH == 2
\* B::LANES of the instantiated block shape (lanes per block).
LANES == 2
\* the largest length and (index + 1) the callers of the model use.
MaxBits == 5

\* the width of usize in the model (64 on the targets of the crate).
UsizeBits == 16

\* B::BIT_WIDTH (bits per block).
BIT_WIDTH == ELEMENT_BIT_WIDTH * LANES

VARIABLES
    a,      \* the vector the caller owns (self of every method)
    call    \* the call that has just executed and whose result the caller
            \* still holds; NoCall between calls

vars == <<a, call>>

\* ------------------------------------------------- lanes (BitBlockElement)
ZERO_ELEMENT == 0
ONE_ELEMENT == 1
MAX_ELEMENT == 2 ^ ELEMENT_BIT_WIDTH - 1

\* uN::wrapping_shl: the shift amount wraps at the lane width, the bits
\* shifted out are lost.
wrapping_shl(x, rhs) == (x * 2 ^ (rhs % ELEMENT_BIT_WIDTH)) % 2 ^ ELEMENT_BIT_WIDTH

\* uN::wrapping_shr.
wrapping_shr(x, rhs) == x \div 2 ^ (rhs % ELEMENT_BIT_WIDTH)

lane_clear_high_bits(x, rhs) == wrapping_shr(wrapping_shl(x, rhs), rhs)

lane_clear_low_bits(x, rhs) == wrapping_shl(wrapping_shr(x, rhs), rhs)

\* !x on a lane.
lane_not(x) == MAX_ELEMENT - x

RECURSIVE lane_bitop(_, _, _, _)
\* x & y, x | y, x ^ y on lanes, bit by bit over the k low bits.
lane_bitop(op, x, y, k) ==
    IF k = 0 THEN 0
    ELSE LET bx == x % 2
             by == y % 2
             r  == CASE op = "and" -> bx * by
                     [] op = "or"  -> IF bx + by > 0 THEN 1 ELSE 0
                     [] op = "xor" -> (bx + by) % 2
         IN  r + 2 * lane_bitop(op, x \div 2, y \div 2, k - 1)

lane_and(x, y) == lane_bitop("and", x, y, ELEMENT_BIT_WIDTH)
lane_or(x, y)  == lane_bitop("or", x, y, ELEMENT_BIT_WIDTH)

RECURSIVE lane_count_ones(_)
\* uN::count_ones.
lane_count_ones(x) == IF x = 0 THEN 0 ELSE (x % 2) + lane_count_ones(x \div 2)

\* uN::leading_zeros: the lane width less the position of the highest set bit.
lane_leading_zeros(x) ==
    ELEMENT_BIT_WIDTH - Cardinality({k \in 0 .. ELEMENT_BIT_WIDTH - 1 : x >= 2 ^ k})

\* ------------------------------------------------------ blocks (BitBlock)
\* A block is its to_array(): a sequence of LANES lanes.
ZERO == [k \in 1 .. LANES |-> ZERO_ELEMENT]
MAX == [k \in 1 .. LANES |-> MAX_ELEMENT]

block_not(x) == [k \in 1 .. LANES |-> lane_not(x[k])]
block_op(op, x, y) == [k \in 1 .. LANES |-> lane_bitop(op, x[k], y[k], ELEMENT_BIT_WIDTH)]

\* the in-place block operations with and_inplace written as |=.
block_op_inplace_or_for_and(op, x, y) ==
    block_op(IF op = "and" THEN "or" ELSE op, x, y)

\* and_inplace / or_inplace / xor_inplace of BitBlock: *self op= rhs.
block_op_inplace(op, x, y) == block_op(op, x, y)

RECURSIVE SumSeq(_)
\* Iterator::sum over a sequence of numbers.
SumSeq(s) == IF s = <<>> THEN 0 ELSE Head(s) + SumSeq(Tail(s))

\* ------------------------------------------------------------ the vector
BitVecSimd(storage, nbits) == [storage |-> storage, nbits |-> nbits]

\* The result of a call that returns a value, or PanicResult when it panics.
Ok(v) == [panic |-> FALSE, v |-> v]
PanicResult == [panic |-> TRUE, v |-> <<>>]

\* Option<bool>.
None == <<>>
Some(x) == <<x>>

bit_to_len(nbits) ==
    << nbits \div BIT_WIDTH,
       (nbits % BIT_WIDTH) \div ELEMENT_BIT_WIDTH,
       nbits % ELEMENT_BIT_WIDTH >>

set_bit(flag, bytes, offset) ==
    IF flag
    THEN lane_or(bytes, wrapping_shl(ONE_ELEMENT, offset))
    ELSE lane_and(bytes, lane_not(wrapping_shl(ONE_ELEMENT, offset)))

\* zeros with the block count rounded down instead of up.
zeros_floor(nbits) ==
    BitVecSimd([k \in 1 .. (nbits \div BIT_WIDTH) |-> ZERO], nbits)

zeros(nbits) ==
    LET len == (nbits + BIT_WIDTH - 1) \div BIT_WIDTH
    IN  BitVecSimd([k \in 1 .. len |-> ZERO], nbits)

ones(nbits) ==
    LET t == bit_to_len(nbits)
        len == t[1]
        bytes == t[2]
        bits == t[3]
        storage == [k \in 1 .. len |-> MAX]
        arr == [k \in 1 .. LANES |->
                   IF k - 1 < bytes THEN MAX_ELEMENT
                   ELSE IF k - 1 = bytes
                        THEN lane_clear_high_bits(MAX_ELEMENT, ELEMENT_BIT_WIDTH - bits)
                        ELSE ZERO_ELEMENT]
    IN  IF bytes > 0 \/ bits > 0
        THEN BitVecSimd(Append(storage, arr), nbits)
        ELSE BitVecSimd(storage, nbits)

RECURSIVE from_bool_loop(_, _, _, _)
\* the for loop of from_bool_iterator over the rest i of the iterator.
from_bool_loop(i, storage, current_slice, nbits) ==
    IF i = <<>>
    THEN IF nbits % BIT_WIDTH > 0
         THEN BitVecSimd(Append(storage, current_slice), nbits)
         ELSE BitVecSimd(storage, nbits)
    ELSE LET k == (nbits % BIT_WIDTH) \div ELEMENT_BIT_WIDTH
             slice1 == IF Head(i)
                       THEN [current_slice EXCEPT ![k + 1] =
                               lane_or(@, wrapping_shl(ONE_ELEMENT,
                                                       nbits % ELEMENT_BIT_WIDTH))]
                       ELSE current_slice
             nbits1 == nbits + 1
         IN  IF nbits1 % BIT_WIDTH = 0
             THEN from_bool_loop(Tail(i), Append(storage, slice1), ZERO, nbits1)
             ELSE from_bool_loop(Tail(i), storage, slice1, nbits1)

from_bool_iterator(i) == from_bool_loop(i, <<>>, ZERO, 0)

len(self) == self.nbits

storage_len(self) == Len(self.storage)

\* lanes of arr at and above (bytes, bits) cleared.
clear_arr_high_bits(arr, bytes, bits) ==
    LET end_bytes == IF bits > 0 THEN bytes + 1 ELSE bytes
    IN  [k \in 1 .. LANES |->
            IF k - 1 >= end_bytes THEN ZERO_ELEMENT
            ELSE IF bits > 0 /\ k - 1 = bytes
                 THEN lane_clear_high_bits(arr[k], ELEMENT_BIT_WIDTH - bits)
                 ELSE arr[k]]

\* fill_arr_high_bits without the partial lane: only whole lanes are filled.
fill_arr_high_bits_whole_lanes(arr, bytes, bits, bytes_max) ==
    LET end_bytes == IF bits > 0 THEN bytes + 1 ELSE bytes
    IN  [k \in 1 .. LANES |->
            IF k - 1 >= end_bytes /\ k - 1 < bytes_max THEN MAX_ELEMENT
            ELSE arr[k]]

fill_arr_high_bits(arr, bytes, bits, bytes_max) ==
    LET end_bytes == IF bits > 0 THEN bytes + 1 ELSE bytes
    IN  [k \in 1 .. LANES |->
            IF k - 1 >= end_bytes /\ k - 1 < bytes_max THEN MAX_ELEMENT
            ELSE IF bits > 0 /\ k - 1 = bytes
                 THEN lane_or(arr[k], lane_clear_low_bits(MAX_ELEMENT, bits))
                 ELSE arr[k]]

\* clear_high_bits that leaves the block as it is.
clear_high_bits_skipped(storage, i, bytes, bits) == storage

\* the storage after self.clear_high_bits(i, bytes, bits).
clear_high_bits(storage, i, bytes, bits) ==
    IF bytes > 0 \/ bits > 0
    THEN [storage EXCEPT ![i + 1] = clear_arr_high_bits(@, bytes, bits)]
    ELSE storage

\* the storage after self.fill_high_bits(i, bytes, bits, bytes_max).
fill_high_bits(storage, i, bytes, bits, bytes_max) ==
    IF bytes > 0 \/ bits > 0
    THEN [storage EXCEPT ![i + 1] = fill_arr_high_bits(@, bytes, bits, bytes_max)]
    ELSE storage

\* the storage after self.fix_high_bits(old_i, old_bytes, old_bits, i, bytes, bits);
\* its debug assertions hold at its only call site.
fix_high_bits(storage, old_i, old_bytes, old_bits, i, bytes, bits) ==
    LET arr == storage[i + 1]
        arr1 == IF old_bytes < bytes
                THEN fill_arr_high_bits(arr, old_bytes, old_bits,
                                        IF bits > 0 THEN bytes + 1 ELSE bytes)
                ELSE IF bits > old_bits
                     THEN [arr EXCEPT ![bytes + 1] =
                             lane_or(@, lane_clear_low_bits(MAX_ELEMENT, old_bits))]
                     ELSE arr
    IN  [storage EXCEPT ![i + 1] = clear_arr_high_bits(arr1, bytes, bits)]

\* Vec::resize(new_len, value): truncate, or extend with copies of value.
vec_resize(storage, new_len, value) ==
    [k \in 1 .. new_len |-> IF k <= Len(storage) THEN storage[k] ELSE value]

\* self after self.resize(nbits, value).
resize(self, nbits, value) ==
    LET t == bit_to_len(nbits)
        i == t[1]
        bytes == t[2]
        bits == t[3]
        s0 == vec_resize(self.storage,
                         IF bytes > 0 \/ bits > 0 THEN i + 1 ELSE i,
                         IF value THEN MAX ELSE ZERO)
        o == bit_to_len(self.nbits)
        s1 == IF nbits < self.nbits
              THEN clear_high_bits(s0, i, bytes, bits)
              ELSE IF value
                   THEN IF o[1] < i
                        THEN clear_high_bits(
                                 fill_high_bits(s0, o[1], o[2], o[3], LANES),
                                 i, bytes, bits)
                        ELSE IF bytes > 0 \/ bits > 0
                             THEN fix_high_bits(s0, o[1], o[2], o[3], i, bytes, bits)
                             ELSE s0
                   ELSE s0
    IN  BitVecSimd(s1, nbits)

\* shrink_to accepting the current length.
shrink_to_allow_equal(self, nbits) ==
    IF nbits > self.nbits THEN PanicResult ELSE Ok(resize(self, nbits, FALSE))

\* self.shrink_to(nbits): Ok(self afterwards), or the panic.
shrink_to(self, nbits) ==
    IF nbits >= self.nbits THEN PanicResult ELSE Ok(resize(self, nbits, FALSE))

\* self.set(index, flag): Ok(self afterwards), or the panic of the length
\* subtraction or of the storage index.
set(self, index, flag) ==
    LET t == bit_to_len(index + 1)
        new_len == IF t[2] > 0 \/ t[3] > 0 THEN t[1] + 1 ELSE t[1]
        grow == self.nbits <= index
        s1 == IF grow
              THEN self.storage \o [k \in 1 .. (new_len - Len(self.storage)) |-> ZERO]
              ELSE self.storage
        n1 == IF grow THEN index + 1 ELSE self.nbits
        p == bit_to_len(index)
    IN  IF grow /\ new_len < Len(self.storage) THEN PanicResult
        ELSE IF p[1] + 1 > Len(s1) THEN PanicResult
        ELSE Ok(BitVecSimd(
                    [s1 EXCEPT ![p[1] + 1] =
                        [@ EXCEPT ![p[2] + 1] = set_bit(flag, @, p[3])]],
                    n1))

RECURSIVE from_slice_loop(_, _)
\* the for loop of from_slice over the rest of the slice; bv is a call result.
from_slice_loop(slice, bv) ==
    IF slice = <<>> \/ bv.panic THEN bv
    ELSE from_slice_loop(Tail(slice), set(bv.v, Head(slice), TRUE))

from_slice(slice) == from_slice_loop(slice, Ok(zeros(Len(slice))))

\* the lanes at positions k + 1 .. k + LANES of slice, ZERO_ELEMENT where the
\* slice has ended: one round of the while loop of from_slice_copy.
chunk(slice, k) ==
    [j \in 1 .. LANES |-> IF k + j <= Len(slice) THEN slice[k + j] ELSE ZERO_ELEMENT]

\* BitVecSimd::from_slice_copy(slice, nbits): the vector, or the panic of its
\* assert!.  The while loop runs until the slice is used up.
from_slice_copy(slice, nbits) ==
    LET n == (nbits + ELEMENT_BIT_WIDTH - 1) \div ELEMENT_BIT_WIDTH
        t == bit_to_len(nbits)
    IN  IF n > Len(slice) THEN PanicResult
        ELSE Ok(BitVecSimd(
                 [b \in 1 .. (Len(slice) + LANES - 1) \div LANES |->
                     IF b - 1 = t[1] /\ (t[2] > 0 \/ t[3] > 0)
                     THEN clear_arr_high_bits(chunk(slice, (b - 1) * LANES), t[2], t[3])
                     ELSE chunk(slice, (b - 1) * LANES)],
                 nbits))

\* BitVecSimd::from_raw_copy(ptr, buffer_len, nbits) on a valid buffer of
\* buffer_len lanes: the vector, or the panic of its assert!.  The for loop
\* runs once per lane index below len.
from_raw_copy(buffer, nbits) ==
    LET n == (nbits + ELEMENT_BIT_WIDTH - 1) \div ELEMENT_BIT_WIDTH
        t == bit_to_len(nbits)
    IN  IF n > Len(buffer) THEN PanicResult
        ELSE Ok(BitVecSimd(
                 [b \in 1 .. n |->
                     LET arr == [j \in 1 .. LANES |->
                                    IF (b - 1) * LANES + (j - 1) < n
                                    THEN buffer[(b - 1) * LANES + j]
                                    ELSE ZERO_ELEMENT]
                     IN  IF b - 1 = t[1] /\ (t[2] > 0 \/ t[3] > 0)
                         THEN clear_arr_high_bits(arr, t[2], t[3])
                         ELSE arr],
                 nbits))

\* self after self.set_all_false().
set_all_false(self) ==
    BitVecSimd([k \in 1 .. Len(self.storage) |-> ZERO], self.nbits)

\* self.set_all_true(): Ok(self afterwards), or the panic of last_mut().unwrap().
set_all_true(self) ==
    LET t == bit_to_len(self.nbits)
        bytes == t[2]
        bits == t[3]
        s0 == [k \in 1 .. Len(self.storage) |-> MAX]
        arr == [k \in 1 .. LANES |->
                   IF k - 1 < bytes THEN MAX_ELEMENT
                   ELSE IF k - 1 = bytes
                        THEN lane_clear_high_bits(MAX_ELEMENT, ELEMENT_BIT_WIDTH - bits)
                        ELSE ZERO_ELEMENT]
    IN  IF bytes > 0 \/ bits > 0
        THEN IF s0 = <<>> THEN PanicResult
             ELSE Ok(BitVecSimd([s0 EXCEPT ![Len(s0)] = arr], self.nbits))
        ELSE Ok(BitVecSimd(s0, self.nbits))

set_all(self, flag) == IF flag THEN set_all_true(self) ELSE Ok(set_all_false(self))

\* get with the bound test off by one: index == len() is read, not refused.
get_off_by_one(self, index) ==
    IF self.nbits < index THEN Ok(None)
    ELSE LET t == bit_to_len(index)
         IN  IF t[1] + 1 > Len(self.storage) THEN PanicResult
             ELSE Ok(Some(lane_and(self.storage[t[1] + 1][t[2] + 1],
                                   wrapping_shl(ONE_ELEMENT, t[3])) # ZERO_ELEMENT))

\* self.get(index): an Option<bool>, or the panic of the storage index.
get(self, index) ==
    IF self.nbits <= index THEN Ok(None)
    ELSE LET t == bit_to_len(index)
         IN  IF t[1] + 1 > Len(self.storage) THEN PanicResult
             ELSE Ok(Some(lane_and(self.storage[t[1] + 1][t[2] + 1],
                                   wrapping_shl(ONE_ELEMENT, t[3])) # ZERO_ELEMENT))

\* self.get_unchecked(index): a bool, or the panic.
get_unchecked(self, index) ==
    IF self.nbits <= index THEN PanicResult
    ELSE LET t == bit_to_len(index)
         IN  IF t[1] + 1 > Len(self.storage) THEN PanicResult
             ELSE Ok(lane_and(self.storage[t[1] + 1][t[2] + 1],
                              wrapping_shl(ONE_ELEMENT, t[3])) # ZERO_ELEMENT)

\* self[index] (Index<usize>).
index_op(self, index) ==
    LET r == get_unchecked(self, index)
    IN  IF r.panic THEN r ELSE IF r.v THEN Ok(TRUE) ELSE Ok(FALSE)

\* Iterator::zip of two storages: as long as the shorter one.
zip_len(x, y) == IF Len(x) < Len(y) THEN Len(x) ELSE Len(y)

\* $name(self, other) of impl_operation!: the consuming form.
op_consuming(op, self, other) ==
    IF self.nbits # other.nbits THEN PanicResult
    ELSE Ok(BitVecSimd([k \in 1 .. zip_len(self.storage, other.storage) |->
                           block_op(op, self.storage[k], other.storage[k])],
                       self.nbits))

\* $name_cloned(&self, &other) of impl_operation!: the borrowing form.
op_cloned(op, self, other) ==
    IF self.nbits # other.nbits THEN PanicResult
    ELSE Ok(BitVecSimd([k \in 1 .. zip_len(self.storage, other.storage) |->
                           block_op(op, self.storage[k], other.storage[k])],
                       self.nbits))

\* the in-place form without its assert_eq! on the lengths.
op_inplace_unchecked(op, self, other) ==
    Ok(BitVecSimd([k \in 1 .. Len(self.storage) |->
                      IF k <= Len(other.storage)
                      THEN block_op_inplace(op, self.storage[k], other.storage[k])
                      ELSE self.storage[k]],
                  self.nbits))

\* $name_inplace(&mut self, &other) of impl_operation!: Ok(self afterwards);
\* the blocks of self beyond the zip stay as they are.
op_inplace(op, self, other) ==
    IF self.nbits # other.nbits THEN PanicResult
    ELSE Ok(BitVecSimd([k \in 1 .. Len(self.storage) |->
                           IF k <= Len(other.storage)
                           THEN block_op_inplace(op, self.storage[k], other.storage[k])
                           ELSE self.storage[k]],
                       self.nbits))

\* self.or_inplace_mismatched_len(&other): self afterwards; the zip stops at
\* the shorter storage and nbits is not touched.
or_inplace_mismatched_len(self, other) ==
    BitVecSimd([k \in 1 .. Len(self.storage) |->
                   IF k <= Len(other.storage)
                   THEN block_op_inplace("or", self.storage[k], other.storage[k])
                   ELSE self.storage[k]],
               self.nbits)

\* self.inverse(): the new vector, or the panic of its assert_eq!.
inverse(self) ==
    LET t == bit_to_len(self.nbits)
        i == t[1]
        bytes == t[2]
        bits == t[3]
        storage == [k \in 1 .. Len(self.storage) |-> block_not(self.storage[k])]
        arr == storage[i + 1]
        arr1 == [k \in 1 .. LANES |->
                    IF k - 1 < bytes THEN arr[k]
                    ELSE IF k - 1 = bytes
                         THEN lane_clear_high_bits(arr[k], ELEMENT_BIT_WIDTH - bits)
                         ELSE ZERO_ELEMENT]
    IN  IF bytes > 0 \/ bits > 0
        THEN IF Len(storage) # i + 1 THEN PanicResult
             ELSE Ok(BitVecSimd([storage EXCEPT ![i + 1] = arr1], self.nbits))
        ELSE Ok(BitVecSimd(storage, self.nbits))

\* !self (Not for BitVecSimd).
not(self) == inverse(self)

\* self.difference(other).
difference(self, other) ==
    LET n == not(other)
    IN  IF n.panic THEN PanicResult ELSE op_consuming("and", self, n.v)

\* self.difference_cloned(&other).
difference_cloned(self, other) ==
    LET n == not(other)
    IN  IF n.panic THEN PanicResult ELSE op_cloned("and", self, n.v)

count_ones(self) ==
    SumSeq([k \in 1 .. Len(self.storage) |->
               SumSeq([j \in 1 .. LANES |-> lane_count_ones(self.storage[k][j])])])

\* self == other (impl_eq_fn!): a bool, or the panic of its assert_eq!.
eq(self, other) ==
    IF self.nbits # other.nbits THEN PanicResult
    ELSE Ok(\A k \in 1 .. zip_len(self.storage, other.storage) :
                self.storage[k] = other.storage[k])

\* count_ones_before with the bit at index counted as well.
count_ones_before_inclusive(self, index) ==
    IF index > self.nbits THEN PanicResult
    ELSE LET t == bit_to_len(index + 1)
             v == BitVecSimd(self.storage \o <<ZERO>>, self.nbits)
         IN  Ok(SumSeq([k \in 1 .. t[1] |->
                    SumSeq([j \in 1 .. LANES |-> lane_count_ones(v.storage[k][j])])])
                + SumSeq([j \in 1 .. t[2] |-> lane_count_ones(v.storage[t[1] + 1][j])])
                + (IF t[3] > 0
                   THEN lane_count_ones(lane_and(v.storage[t[1] + 1][t[2] + 1],
                                                 2 ^ t[3] - 1))
                   ELSE 0))

\* self.count_ones_before(index): the count, or the panic of its assert! or
\* of the unwrap of storage.get(i).
count_ones_before(self, index) ==
    IF index > self.nbits THEN PanicResult
    ELSE IF index = 0 THEN Ok(0)
    ELSE LET t == bit_to_len(index)
             i == t[1]
             bytes == t[2]
             bits == t[3]
             taken == IF i < Len(self.storage) THEN i ELSE Len(self.storage)
             full == SumSeq([k \in 1 .. taken |->
                         SumSeq([j \in 1 .. LANES |->
                                     lane_count_ones(self.storage[k][j])])])
         IN  IF bytes > 0 \/ bits > 0
             THEN IF i >= Len(self.storage) THEN PanicResult
                  ELSE LET arr == self.storage[i + 1]
                           whole == SumSeq([j \in 1 .. bytes |-> lane_count_ones(arr[j])])
                           mask == (wrapping_shl(ONE_ELEMENT, bits) - ONE_ELEMENT)
                                       % 2 ^ ELEMENT_BIT_WIDTH
                           part == IF bits > 0
                                   THEN lane_count_ones(lane_and(arr[bytes + 1], mask))
                                   ELSE 0
                       IN  Ok(full + whole + part)
             ELSE Ok(full)

\* the number of leading elements of s that satisfy zero: what skip_while
\* skips.
RECURSIVE skipped(_, _)
skipped(s, zero) ==
    IF s = <<>> \/ Head(s) # zero THEN 0 ELSE 1 + skipped(Tail(s), zero)

\* Iterator::rev over a sequence.
rev(s) == [k \in 1 .. Len(s) |-> s[Len(s) + 1 - k]]

\* self.leading_zeros(): the count, or the panic of the usize subtraction
\* when the build checks overflow (debug); without the checks (release) the
\* subtraction wraps.
leading_zeros(self, overflow_checks) ==
    LET blocks == rev(self.storage)
        zero_blocks == skipped(blocks, ZERO)
    IN  IF zero_blocks = Len(blocks) THEN Ok(self.nbits)
        ELSE LET arr == rev(blocks[zero_blocks + 1])
                 zero_lanes == skipped(arr, ZERO_ELEMENT)
                 zero_item_count == zero_blocks * LANES + zero_lanes
                 y == arr[zero_lanes + 1]
                 raw_leading_zeros ==
                     zero_item_count * ELEMENT_BIT_WIDTH + lane_leading_zeros(y)
                 rem == self.nbits % BIT_WIDTH
                 extra_leading_zeros == IF rem > 0 THEN BIT_WIDTH - rem ELSE rem
             IN  IF raw_leading_zeros < extra_leading_zeros /\ overflow_checks
                 THEN PanicResult
                 ELSE Ok((raw_leading_zeros - extra_leading_zeros) % 2 ^ UsizeBits)

\* self.any(): some block has a set bit.
any(self) ==
    \E k \in 1 .. Len(self.storage) :
        SumSeq([j \in 1 .. LANES |-> lane_count_ones(self.storage[k][j])]) > 0

\* self.all().
all(self) == count_ones(self) = self.nbits

\* self.none().
none(self) == ~any(self)

\* self.is_empty().
is_empty(self) == ~any(self)

\* the bits of the lanes of all blocks in storage order, lowest bit of a lane
\* first: flat_map(to_array) then flat_map over 0 .. ELEMENT_BIT_WIDTH.
lane_bools(storage) ==
    [p \in 1 .. Len(storage) * BIT_WIDTH |->
        LET q == (p - 1) \div ELEMENT_BIT_WIDTH
            x == storage[(q \div LANES) + 1][(q % LANES) + 1]
        IN  lane_and(wrapping_shr(x, (p - 1) % ELEMENT_BIT_WIDTH), ONE_ELEMENT)
                # ZERO_ELEMENT]

\* Iterator::take.
take(s, n) == [k \in 1 .. (IF n < Len(s) THEN n ELSE Len(s)) |-> s[k]]

\* Vec<bool>::from(v).
vec_bool_from(v) == take(lane_bools(v.storage), v.nbits)

\* self.into_bools().
into_bools(self) == vec_bool_from(self)

RECURSIVE enumerate_filter(_, _)
\* enumerate().filter(|(_, b)| *b).map(|(i, _)| i), counting from i.
enumerate_filter(bs, i) ==
    IF bs = <<>> THEN <<>>
    ELSE (IF Head(bs) THEN <<i>> ELSE <<>>) \o enumerate_filter(Tail(bs), i + 1)

\* usizes with enumerate counting from 1.
usizes_one_based(self) ==
    enumerate_filter(take(lane_bools(self.storage), self.nbits), 1)

\* self.usizes(): the items the iterator yields, in order.
usizes(self) == enumerate_filter(take(lane_bools(self.storage), self.nbits), 0)

\* self.to_usizes().
to_usizes(self) == usizes(self)

\* the number of leading elements of s that differ from zero: what
\* take_while(|e| e != zero).count() counts.
RECURSIVE taken_while_not(_, _)
taken_while_not(s, zero) ==
    IF s = <<>> \/ Head(s) = zero THEN 0 ELSE 1 + taken_while_not(Tail(s), zero)

RECURSIVE flatten(_)
\* the lanes of a sequence of blocks, block after block.
flatten(blocks) ==
    IF blocks = <<>> THEN <<>> ELSE Head(blocks) \o flatten(Tail(blocks))

\* serialize(x, s): the sequence of lanes written for the storage x.
serialize(x) ==
    LET last_count == IF x # <<>> THEN taken_while_not(x[Len(x)], ZERO_ELEMENT) ELSE 0
        prefix_len == (IF Len(x) > 1 THEN Len(x) ELSE 1) - 1
    IN  flatten(SubSeq(x, 1, prefix_len))
            \o (IF x # <<>> THEN take(x[Len(x)], last_count) ELSE <<>>)

\* deserialize(deserializer): the storage built from the sequence of lanes s,
\* the last block padded with T::default().
deserialize(s) ==
    LET n == (Len(s) + (LANES - 1)) \div LANES
    IN  [b \in 1 .. n |->
            LET k == (b - 1) * LANES
            IN  IF k + LANES < n * LANES
                THEN SubSeq(s, k + 1, k + LANES)
                ELSE [j \in 1 .. LANES |->
                         IF k + j <= Len(s) THEN s[k + j] ELSE ZERO_ELEMENT]]

\* the derived Serialize then Deserialize of the struct: storage goes through
\* serialize and deserialize, nbits is written and read as it is.
serde_round_trip(self) ==
    BitVecSimd(deserialize(serialize(self.storage)), self.nbits)

\* ------------------------------------------------------- the caller's calls
\* The caller owns a vector and makes one call at a time.  A call record keeps
\* the operation, its arguments, self as it was when the call was made, the
\* other operand of a binary operation, whether the call panicked and the
\* value it returned.
NoCall ==
    [op |-> "idle", args |-> <<>>, pre |-> <<>>, other |-> <<>>,
     panic |-> FALSE, ret |-> <<>>]

Called(op, args, other, r) ==
    [op |-> op, args |-> args, pre |-> a, other |-> other,
     panic |-> r.panic, ret |-> r.v]

\* the calls that return a vector (-> Self).
ReturnsSelf ==
    {"zeros", "ones", "from_bool_iterator", "from_slice", "inverse", "not",
     "and", "or", "xor", "and_cloned", "or_cloned", "xor_cloned",
     "difference", "difference_cloned", "from_slice_copy", "from_raw_copy"}

BinOps == {"and", "or", "xor"}

Lengths == 0 .. MaxBits
Indices == 0 .. MaxBits - 1

\* the boolean sequences handed to from_bool_iterator.
BoolSeqs == UNION {[1 .. n -> BOOLEAN] : n \in 0 .. MaxBits}

\* the index slices handed to from_slice: up to two indices, in any order and
\* with repeats, among the first index, a lane boundary and a block boundary.
SliceIndices == {0, ELEMENT_BIT_WIDTH, BIT_WIDTH}
Slices ==
    {<<>>} \cup {<<x>> : x \in SliceIndices}
           \cup {<<x, y>> : x \in SliceIndices, y \in SliceIndices}

\* the lane slices and buffers handed to from_slice_copy and from_raw_copy:
\* up to one lane more than a block, of empty, lowest-bit and full lanes.
LaneSamples == {ZERO_ELEMENT, ONE_ELEMENT, MAX_ELEMENT}
LaneSlices == UNION {[1 .. n -> LaneSamples] : n \in 0 .. LANES + 1}

\* the vectors handed to a binary operation as its other operand: what the
\* constructors build.
Others ==
    {zeros(n) : n \in Lengths} \cup {ones(n) : n \in Lengths}
        \cup {from_bool_iterator(i) : i \in BoolSeqs}

Init ==
    /\ a = zeros(0)
    /\ call = NoCall

\* the caller is between calls.
Idle == call.op = "idle"

\* a call of an associated function or of a method that does not mutate self.
Pure(op, args, other, r) ==
    /\ call' = Called(op, args, other, r)
    /\ UNCHANGED a

\* a call of a &mut self method returning (): r is Ok(self afterwards) or the
\* panic, which leaves self as it was.
Mutate(op, args, other, r) ==
    /\ a' = IF r.panic THEN a ELSE r.v
    /\ call' = Called(op, args, other, [panic |-> r.panic, v |-> <<>>])

Zeros(nbits) == Pure("zeros", <<nbits>>, <<>>, Ok(zeros(nbits)))

Ones(nbits) == Pure("ones", <<nbits>>, <<>>, Ok(ones(nbits)))

FromBoolIterator(i) ==
    Pure("from_bool_iterator", <<i>>, <<>>, Ok(from_bool_iterator(i)))

FromSlice(slice) == Pure("from_slice", <<slice>>, <<>>, from_slice(slice))

FromSliceCopy(slice, nbits) ==
    Pure("from_slice_copy", <<slice, nbits>>, <<>>, from_slice_copy(slice, nbits))

\* the buffer is valid and holds buffer_len lanes.
FromRawCopy(buffer, nbits) ==
    Pure("from_raw_copy", <<buffer, Len(buffer), nbits>>, <<>>, from_raw_copy(buffer, nbits))

Set(index, flag) == Mutate("set", <<index, flag>>, <<>>, set(a, index, flag))

SetAll(flag) == Mutate("set_all", <<flag>>, <<>>, set_all(a, flag))

Resize(nbits, value) ==
    Mutate("resize", <<nbits, value>>, <<>>, Ok(resize(a, nbits, value)))

ShrinkTo(nbits) == Mutate("shrink_to", <<nbits>>, <<>>, shrink_to(a, nbits))

Get(index) == Pure("get", <<index>>, <<>>, get(a, index))

GetUnchecked(index) == Pure("get_unchecked", <<index>>, <<>>, get_unchecked(a, index))

Index(index) == Pure("index", <<index>>, <<>>, index_op(a, index))

OpConsuming(op, other) == Pure(op, <<>>, other, op_consuming(op, a, other))

OpCloned(op, other) == Pure(op \o "_cloned", <<>>, other, op_cloned(op, a, other))

OpInplace(op, other) == Mutate(op \o "_inplace", <<>>, other, op_inplace(op, a, other))

OrInplaceMismatchedLen(other) ==
    Mutate("or_inplace_mismatched_len", <<>>, other,
           Ok(or_inplace_mismatched_len(a, other)))

Inverse == Pure("inverse", <<>>, <<>>, inverse(a))

Not == Pure("not", <<>>, <<>>, not(a))

Difference(other) == Pure("difference", <<>>, other, difference(a, other))

DifferenceCloned(other) ==
    Pure("difference_cloned", <<>>, other, difference_cloned(a, other))

CountOnes == Pure("count_ones", <<>>, <<>>, Ok(count_ones(a)))

CountOnesBefore(index) ==
    Pure("count_ones_before", <<index>>, <<>>, count_ones_before(a, index))

LeadingZeros(overflow_checks) ==
    Pure("leading_zeros", <<overflow_checks>>, <<>>, leading_zeros(a, overflow_checks))

Any == Pure("any", <<>>, <<>>, Ok(any(a)))

All == Pure("all", <<>>, <<>>, Ok(all(a)))

NoneOp == Pure("none", <<>>, <<>>, Ok(none(a)))

IsEmpty == Pure("is_empty", <<>>, <<>>, Ok(is_empty(a)))

\* into_bools and to_usizes take self by value: the caller hands over a clone.
IntoBools == Pure("into_bools", <<>>, <<>>, Ok(into_bools(a)))

Usizes == Pure("usizes", <<>>, <<>>, Ok(usizes(a)))

ToUsizes == Pure("to_usizes", <<>>, <<>>, Ok(to_usizes(a)))

\* the caller serializes its vector and deserializes the result into a second
\* vector, which it inspects and drops.
SerdeRoundTrip == Pure("serde_round_trip", <<>>, <<>>, Ok(serde_round_trip(a)))

Eq(other) == Pure("eq", <<>>, other, eq(a, other))

\* the caller drops the returned value and goes on; a panic ends the program.
Return ==
    /\ call.op # "idle"
    /\ ~call.panic
    /\ call' = NoCall
    /\ UNCHANGED a

\* the caller keeps a returned vector as its vector.
Take ==
    /\ call.op \in ReturnsSelf
    /\ ~call.panic
    /\ a' = call.ret
    /\ call' = NoCall

Next ==
    \/ Idle /\ \E n \in Lengths : Zeros(n)
    \/ Idle /\ \E n \in Lengths : Ones(n)
    \/ Idle /\ \E i \in BoolSeqs : FromBoolIterator(i)
    \/ Idle /\ \E s \in Slices : FromSlice(s)
    \/ Idle /\ \E i \in Indices, f \in BOOLEAN : Set(i, f)
    \/ Idle /\ \E f \in BOOLEAN : SetAll(f)
    \/ Idle /\ \E n \in Lengths, f \in BOOLEAN : Resize(n, f)
    \/ Idle /\ \E n \in Lengths : ShrinkTo(n)
    \/ Idle /\ \E i \in Lengths : Get(i)
    \/ Idle /\ \E i \in Lengths : GetUnchecked(i)
    \/ Idle /\ \E i \in Lengths : Index(i)
    \/ Idle /\ \E op \in BinOps, o \in Others : OpConsuming(op, o)
    \/ Idle /\ \E op \in BinOps, o \in Others : OpCloned(op, o)
    \/ Idle /\ \E op \in BinOps, o \in Others : OpInplace(op, o)
    \/ Idle /\ Inverse
    \/ Idle /\ Not
    \/ Idle /\ \E o \in Others : Difference(o)
    \/ Idle /\ \E o \in Others : DifferenceCloned(o)
    \/ Idle /\ CountOnes
    \/ Idle /\ \E o \in Others : Eq(o)
    \/ Idle /\ \E i \in Lengths : CountOnesBefore(i)
    \/ Idle /\ \E c \in BOOLEAN : LeadingZeros(c)
    \/ Idle /\ Any
    \/ Idle /\ All
    \/ Idle /\ NoneOp
    \/ Idle /\ IsEmpty
    \/ Idle /\ IntoBools
    \/ Idle /\ Usizes
    \/ Idle /\ ToUsizes
    \/ Idle /\ SerdeRoundTrip
    \/ Return
    \/ Take

Spec == Init /\ [][Next]_vars

\* the caller also uses the union that takes operands of any length.
NextMismatched ==
    \/ Next
    \/ Idle /\ \E o \in Others : OrInplaceMismatchedLen(o)

SpecMismatched == Init /\ [][NextMismatched]_vars

\* the caller also builds vectors from lanes it holds.
NextCopy ==
    \/ Next
    \/ Idle /\ \E s \in LaneSlices, n \in Lengths : FromSliceCopy(s, n)
    \/ Idle /\ \E s \in LaneSlices, n \in Lengths : FromRawCopy(s, n)

SpecCopy == Init /\ [][NextCopy]_vars

\* ------------------------------------------------------------ the claims
\* The storage read as one flat string of bits: bit p lies in lane
\* p div ELEMENT_BIT_WIDTH of the concatenated lanes of all blocks.
StorageBit(v, p) ==
    LET q == p \div ELEMENT_BIT_WIDTH
        lane == v.storage[(q \div LANES) + 1][(q % LANES) + 1]
    IN  (lane \div 2 ^ (p % ELEMENT_BIT_WIDTH)) % 2

StorageBits(v) == Len(v.storage) * BIT_WIDTH

TailZero(v) == \A p \in v.nbits .. StorageBits(v) - 1 : StorageBit(v, p) = 0

\* the positions below len() that get reads as set.
SetPositions(v) == {i \in 0 .. v.nbits - 1 : get(v, i) = Ok(Some(TRUE))}

\* the caller holds a vector that a call has just returned.
HoldsVector == call.op \in ReturnsSelf /\ ~call.panic

\* the vectors of the state: the caller's own and a returned one.
Vectors == {a} \cup (IF HoldsVector THEN {call.ret} ELSE {})

BoolOp(op, x, y) ==
    CASE op = "and" -> x /\ y
      [] op = "or"  -> x \/ y
      [] op = "xor" -> x # y

\* C1: every storage bit at a position >= len() is zero in every reachable
\* state of every vector; equivalently count_ones() is the number of positions
\* below len() that read as set.
C1_TailZero ==
    \A v \in Vectors :
        /\ TailZero(v)
        /\ count_ones(v) = Cardinality(SetPositions(v))

\* C2: storage_len() == ceil(len() / BLOCK_BIT_WIDTH) after every operation,
\* for the caller's vector and for every vector a call returns.
C2_StorageLen ==
    \A v \in Vectors :
        /\ storage_len(v) * BIT_WIDTH >= len(v)
        /\ (storage_len(v) - 1) * BIT_WIDTH < len(v)

\* a set that grew the vector into a further block.
C2_Witness ==
    /\ call.op = "set"
    /\ ~call.panic
    /\ len(call.pre) % BIT_WIDTH # 0
    /\ storage_len(a) = storage_len(call.pre) + 1

\* C3: ones(N) has len() == N, reads Some(true) below N and None from N on,
\* and count_ones() == N.
C3_Ones ==
    call.op = "ones" =>
        LET N == call.args[1]
            v == call.ret
        IN  /\ ~call.panic
            /\ len(v) = N
            /\ \A i \in 0 .. N - 1 : get(v, i) = Ok(Some(TRUE))
            /\ \A i \in N .. MaxBits + 1 : get(v, i) = Ok(None)
            /\ count_ones(v) = N

\* C4: set(index, value) grows the vector to index + 1 when index >= len(),
\* the newly exposed positions below index read Some(false) and index reads
\* Some(value); below len() the length stays; every other old position keeps
\* its value.
C4_Set ==
    call.op = "set" =>
        LET index == call.args[1]
            value == call.args[2]
            old == call.pre
        IN  /\ ~call.panic
            /\ get(a, index) = Ok(Some(value))
            /\ index >= len(old) =>
                   /\ len(a) = index + 1
                   /\ \A j \in len(old) .. index - 1 : get(a, j) = Ok(Some(FALSE))
            /\ index < len(old) => len(a) = len(old)
            /\ \A j \in 0 .. len(old) - 1 : j # index => get(a, j) = get(old, j)

\* C5: get(index) is None exactly when index >= len() and otherwise Some(the
\* bit at index), and leaves the vector as it was; get_unchecked(index) and
\* v[index] return that boolean below len() and panic from len() on.
C5_Get ==
    /\ call.op = "get" =>
           LET index == call.args[1]
           IN  /\ ~call.panic
               /\ a = call.pre
               /\ (call.ret = None) <=> (index >= len(a))
               /\ index < len(a) => call.ret = Some(StorageBit(a, index) = 1)
    /\ call.op \in {"get_unchecked", "index"} =>
           LET index == call.args[1]
           IN  /\ a = call.pre
               /\ call.panic <=> (index >= len(a))
               /\ index < len(a) => get(a, index) = Ok(Some(call.ret))

\* a read of a set bit in the second block.
C5_Witness ==
    /\ call.op = "get"
    /\ call.args[1] >= BIT_WIDTH
    /\ call.ret = Some(TRUE)

\* C6: for operands of equal length each form of and/or/xor yields a vector of
\* that length whose every position is the operation of the operands'
\* positions; the three forms agree; the borrowing form leaves self as it was.
C6_BinOps ==
    \A op \in BinOps :
        (/\ call.op \in {op, op \o "_cloned", op \o "_inplace"}
         /\ len(call.pre) = len(call.other)) =>
            LET A == call.pre
                B == call.other
                C == IF call.op = op \o "_inplace" THEN a ELSE call.ret
            IN  /\ ~call.panic
                /\ len(C) = len(A)
                /\ \A i \in 0 .. len(A) - 1 :
                       get(C, i) = Ok(Some(BoolOp(op, get(A, i).v[1], get(B, i).v[1])))
                /\ op_consuming(op, A, B) = Ok(C)
                /\ op_cloned(op, A, B) = Ok(C)
                /\ op_inplace(op, A, B) = Ok(C)
                /\ call.op # op \o "_inplace" => a = A

\* an in-place intersection of two-block operands that removed a set bit.
C6_Witness ==
    /\ call.op = "and_inplace"
    /\ ~call.panic
    /\ len(a) > BIT_WIDTH
    /\ count_ones(a) > 0
    /\ count_ones(a) < count_ones(call.pre)

\* C7: with operands of different lengths every form of and/or/xor and the
\* equality comparison panic, and self is as it was.
C7_Mismatch ==
    (/\ call.op \in {"and", "or", "xor", "and_cloned", "or_cloned", "xor_cloned",
                     "and_inplace", "or_inplace", "xor_inplace", "eq"}
     /\ len(call.pre) # len(call.other)) =>
        /\ call.panic
        /\ a = call.pre

\* an in-place union with a longer operand, on a vector with a set bit.
C7_Witness ==
    /\ call.op = "or_inplace"
    /\ len(call.pre) < len(call.other)
    /\ count_ones(call.pre) > 0
    /\ call.panic

\* C8: inverse(V) has the length of V, reads the negation of V at every
\* position below it, has len(V) - count_ones(V) set bits, and leaves V as it
\* was.
C8_Inverse ==
    call.op = "inverse" =>
        LET V == call.pre
            R == call.ret
        IN  /\ ~call.panic
            /\ a = V
            /\ len(R) = len(V)
            /\ \A i \in 0 .. len(V) - 1 : get(R, i) = Ok(Some(~get(V, i).v[1]))
            /\ count_ones(R) = len(V) - count_ones(V)

\* C9: inverse(inverse(V)) == V by the == operator.
C9_InverseTwice ==
    (call.op = "inverse" /\ ~call.panic) =>
        LET twice == inverse(call.ret)
        IN  /\ ~twice.panic
            /\ eq(twice.v, call.pre) = Ok(TRUE)

\* C10: for operands of equal length difference(A, B) reads A AND NOT B at
\* every position, difference(A, B) OR difference(B, A) == xor(A, B), and the
\* consuming and the borrowing form agree.
C10_Difference ==
    (/\ call.op \in {"difference", "difference_cloned"}
     /\ len(call.pre) = len(call.other)) =>
        LET A == call.pre
            B == call.other
            D == call.ret
            back == difference(B, A)
            both == op_consuming("or", D, back.v)
            sym == op_consuming("xor", A, B)
        IN  /\ ~call.panic
            /\ \A i \in 0 .. len(A) - 1 :
                   get(D, i) = Ok(Some(get(A, i).v[1] /\ ~get(B, i).v[1]))
            /\ difference(A, B) = Ok(D)
            /\ difference_cloned(A, B) = Ok(D)
            /\ ~back.panic /\ ~both.panic /\ ~sym.panic
            /\ eq(both.v, sym.v) = Ok(TRUE)

\* C11: after resize(N, true) with N > len(), len() is N, every position in
\* [old_len, N) reads Some(true), every position below old_len keeps its
\* value, and no storage bit at a position >= N is set, whether the growth
\* stays inside the old boundary block or crosses into new blocks.
C11_ResizeTrue ==
    (call.op = "resize" /\ call.args[2] /\ call.args[1] > len(call.pre)) =>
        /\ ~call.panic
        /\ len(a) = call.args[1]
        /\ \A i \in len(call.pre) .. call.args[1] - 1 : get(a, i) = Ok(Some(TRUE))
        /\ \A i \in 0 .. len(call.pre) - 1 : get(a, i) = get(call.pre, i)
        /\ TailZero(a)

\* a growth out of a partly used block into a newly allocated one, over a
\* vector that has a cleared position.
C11_Witness ==
    /\ call.op = "resize" /\ call.args[2]
    /\ len(call.pre) % ELEMENT_BIT_WIDTH # 0
    /\ storage_len(call.pre) < storage_len(a)
    /\ len(a) % BIT_WIDTH # 0
    /\ get(call.pre, 0) = Ok(Some(FALSE))

C13_CountOnesBefore ==
    call.op = "count_ones_before" =>
        IF call.args[1] > len(a)
        THEN call.panic
        ELSE /\ ~call.panic
             /\ call.ret = Cardinality({i \in SetPositions(a) : i < call.args[1]})

\* a count up to the length of a vector of more than one block that has a
\* set and a cleared position.
C13_Witness ==
    /\ call.op = "count_ones_before" /\ ~call.panic
    /\ call.args[1] = len(a)
    /\ len(a) > BIT_WIDTH
    /\ call.ret > 0 /\ call.ret < len(a)

\* the highest position that get reads as set.
Highest(v) == CHOOSE h \in SetPositions(v) : \A i \in SetPositions(v) : i <= h

\* C14: on every reachable vector leading_zeros() returns len() when no
\* position is set and otherwise len() - 1 - h for the highest set position h,
\* and the subtraction of the block padding never underflows.
C14_LeadingZeros ==
    call.op = "leading_zeros" =>
        /\ ~call.panic
        /\ call.ret = IF SetPositions(a) = {} THEN len(a)
                      ELSE len(a) - 1 - Highest(a)

\* C15: on every reachable vector any() is true iff some position below len()
\* reads as set, all() is true iff every position below len() reads as set,
\* and none() and is_empty() are both the negation of any().
C15_AnyAllNone ==
    LET some == SetPositions(a) # {}
    IN  /\ call.op = "any" => call.ret = some
        /\ call.op = "all" => call.ret = (SetPositions(a) = 0 .. len(a) - 1)
        /\ call.op = "none" => call.ret = ~some
        /\ call.op = "is_empty" => call.ret = ~some

\* u lists exactly the indices of the true elements of bs, each once, in
\* strictly ascending order.
IsTrueIndices(u, bs) ==
    /\ {u[k] : k \in 1 .. Len(u)} = {i \in 0 .. Len(bs) - 1 : bs[i + 1]}
    /\ \A k \in 1 .. Len(u) - 1 : u[k] < u[k + 1]

\* each boolean sequence paired with the vector from_bool_iterator builds
\* from it.
FromBools == {<<bs, from_bool_iterator(bs)>> : bs \in BoolSeqs}

\* what C16 says of the vector V built from bs.
RoundTrip(bs, V) ==
    /\ len(V) = Len(bs)
    /\ \A i \in 0 .. Len(bs) - 1 : get(V, i) = Ok(Some(bs[i + 1]))
    /\ get(V, Len(bs)) = Ok(None)
    /\ into_bools(V) = bs
    /\ IsTrueIndices(usizes(V), bs)
    /\ IsTrueIndices(to_usizes(V), bs)

\* the pairs of FromBools that round-trip.
RoundTrips == {p \in FromBools : RoundTrip(p[1], p[2])}

\* C16: V = from_bool_iterator(bs) has len |bs| and get(i) == Some(bs[i]) for
\* every i; into_bools(V) is bs; usizes() and to_usizes() yield exactly the
\* indices of the true elements of bs, each once, strictly ascending, and leave
\* V as it was.
C16_BoolRoundTrip ==
    /\ call.op = "from_bool_iterator" =>
           /\ ~call.panic
           /\ <<call.args[1], call.ret>> \in RoundTrips
    /\ call.op \in {"into_bools", "usizes", "to_usizes"} =>
           \A p \in FromBools :
               call.pre = p[2] =>
                   /\ ~call.panic
                   /\ a = call.pre
                   /\ call.op = "into_bools" => call.ret = p[1]
                   /\ call.op # "into_bools" => IsTrueIndices(call.ret, p[1])

\* usizes() called on the vector built from a sequence longer than a block
\* that has a true and a false element.
C16_Witness ==
    /\ call.op = "usizes" /\ ~call.panic
    /\ \E bs \in BoolSeqs :
           /\ <<bs, call.pre>> \in FromBools
           /\ Len(bs) > BIT_WIDTH
           /\ bs[1] /\ ~bs[2] /\ bs[Len(bs)]
    /\ Len(call.ret) > 1

\* the largest index of a non-empty slice.
MaxOf(slice) ==
    CHOOSE m \in {slice[k] : k \in 1 .. Len(slice)} :
        \A k \in 1 .. Len(slice) : slice[k] <= m

\* C17: for every non-empty slice S of indices, in any order and with
\* repeats, from_slice(S) has len() == max(S) + 1, reads Some(i \in S) at every
\* i <= max(S) and None at every i >= len().
C17_FromSlice ==
    (call.op = "from_slice" /\ call.args[1] # <<>>) =>
        LET S == call.args[1]
            V == call.ret
        IN  /\ ~call.panic
            /\ len(V) = MaxOf(S) + 1
            /\ \A i \in 0 .. MaxOf(S) :
                   get(V, i) = Ok(Some(\E k \in 1 .. Len(S) : S[k] = i))
            /\ \A i \in len(V) .. MaxBits : get(V, i) = Ok(None)

\* C18: for two reachable vectors A and B of equal length, A == B is true
\* if and only if A.get(i) == B.get(i) for every i < len.
C18_EqIffGet ==
    (call.op = "eq" /\ len(call.pre) = len(call.other)) =>
        /\ ~call.panic
        /\ call.ret = (\A i \in 0 .. len(call.pre) - 1 :
                           get(call.pre, i) = get(call.other, i))

\* the storage positions at or above len() that hold a set bit.
TailSet(v) == {p \in v.nbits .. StorageBits(v) - 1 : StorageBit(v, p) = 1}

\* C19: or_inplace_mismatched_len never panics and leaves len() and
\* storage_len() of self unchanged; below both lengths a position becomes
\* self(i) OR other(i), from len(other) up to len(self) it is unchanged, and
\* the bits of other at positions >= len(self) are ignored: they do not become
\* set storage bits of self, so count_ones() gains nothing above len(self).
C19_OrMismatched ==
    call.op = "or_inplace_mismatched_len" =>
        LET old == call.pre
            other == call.other
        IN  /\ ~call.panic
            /\ len(a) = len(old)
            /\ storage_len(a) = storage_len(old)
            /\ \A i \in 0 .. len(old) - 1 :
                   get(a, i) = IF i < len(other)
                               THEN Ok(Some(get(old, i) = Ok(Some(TRUE))
                                              \/ get(other, i) = Ok(Some(TRUE))))
                               ELSE get(old, i)
            /\ TailSet(a) \subseteq TailSet(old)
            /\ count_ones(a) = Cardinality(SetPositions(a)) + Cardinality(TailSet(old))

\* C20: for every vector V with a zero tail and the storage length of its
\* len(), decoding the lanes that encoding V's storage wrote, with len(V)
\* carried alongside, yields a vector W with W.get(i) == V.get(i) for every
\* i < len(V) and no panic, also when the last block of V has a zero lane
\* below a non-zero lane or is all zero.
C20_SerdeRoundTrip ==
    (/\ call.op = "serde_round_trip"
     /\ TailZero(call.pre)
     /\ storage_len(call.pre) * BIT_WIDTH >= len(call.pre)
     /\ (storage_len(call.pre) - 1) * BIT_WIDTH < len(call.pre)) =>
        LET V == call.pre
            W == call.ret
        IN  /\ ~call.panic
            /\ len(W) = len(V)
            /\ \A i \in 0 .. len(V) - 1 : get(W, i) = get(V, i)

\* C21: set_all(value) leaves len() unchanged and makes every position below
\* len() read Some(value); afterwards count_ones() is len() for true and 0 for
\* false, no bit at a position >= len() being left set, for every length.
C21_SetAll ==
    call.op = "set_all" =>
        /\ ~call.panic
        /\ len(a) = len(call.pre)
        /\ \A i \in 0 .. len(a) - 1 : get(a, i) = Ok(Some(call.args[1]))
        /\ count_ones(a) = IF call.args[1] THEN len(a) ELSE 0
        /\ TailZero(a)

\* bit i of a sequence of lanes read as one string of bits.
LaneBit(lanes, i) ==
    (lanes[(i \div ELEMENT_BIT_WIDTH) + 1] \div 2 ^ (i % ELEMENT_BIT_WIDTH)) % 2 = 1

\* C22: from_slice_copy(slice, nbits) panics if the slice has fewer than
\* ceil(nbits / W) lanes; otherwise the result is exactly the first nbits bits
\* of the slice: len() is nbits, get(i) is bit i of the slice below nbits and
\* None from nbits on, storage_len() is ceil(nbits / BIT_WIDTH), and
\* count_ones() is the number of set bits among the first nbits bits, also
\* when the slice holds more lanes than needed.
C22_FromSliceCopy ==
    call.op = "from_slice_copy" =>
        LET slice == call.args[1]
            nbits == call.args[2]
            V == call.ret
        IN  IF Len(slice) * ELEMENT_BIT_WIDTH < nbits
            THEN call.panic
            ELSE /\ ~call.panic
                 /\ len(V) = nbits
                 /\ \A i \in 0 .. nbits - 1 : get(V, i) = Ok(Some(LaneBit(slice, i)))
                 /\ get(V, nbits) = Ok(None)
                 /\ storage_len(V) = (nbits + BIT_WIDTH - 1) \div BIT_WIDTH
                 /\ count_ones(V) = Cardinality({i \in 0 .. nbits - 1 : LaneBit(slice, i)})

\* the first n bits of a sequence of lanes.
LaneBits(lanes, n) == [p \in 1 .. n |-> LaneBit(lanes, p - 1)]

\* the results r and s of a call on two vectors are the same to the caller:
\* both panic, or both return vectors of the same length that read the same.
SameVector(r, s) ==
    /\ r.panic = s.panic
    /\ ~r.panic =>
           /\ len(r.v) = len(s.v)
           /\ \A i \in 0 .. len(r.v) : get(r.v, i) = get(s.v, i)

\* C23: from_raw_copy(ptr, buffer_len, nbits) on a valid buffer with
\* buffer_len >= ceil(nbits / W) builds exactly ceil(nbits / BIT_WIDTH) blocks
\* with get(i) equal to bit i of the buffer below nbits, so that
\* leading_zeros() and a later growing set(index, _) on the result behave as
\* on the vector from_bool_iterator builds from the same bits.
C23_FromRawCopy ==
    (/\ call.op = "from_raw_copy"
     /\ call.args[2] * ELEMENT_BIT_WIDTH >= call.args[3]) =>
        LET buffer == call.args[1]
            nbits == call.args[3]
            V == call.ret
            R == from_bool_iterator(LaneBits(buffer, nbits))
        IN  /\ ~call.panic
            /\ len(V) = nbits
            /\ storage_len(V) = (nbits + BIT_WIDTH - 1) \div BIT_WIDTH
            /\ \A i \in 0 .. nbits - 1 : get(V, i) = Ok(Some(LaneBit(buffer, i)))
            /\ \A c \in BOOLEAN : leading_zeros(V, c) = leading_zeros(R, c)
            /\ \A index \in nbits .. MaxBits, flag \in BOOLEAN :
                   SameVector(set(V, index, flag), set(R, index, flag))

\* C24: after resize(n, v) or shrink_to(n) with n < len(), a later growth by
\* resize(m, false) or by set(index, _) with index >= n makes every position
\* in [n, new_len) that was not written read Some(false), whatever bits were
\* stored at those positions before the shrink and whether or not n is lane-
\* or block-aligned.
C24_TruncatedStayCleared ==
    (/\ call.op \in {"resize", "shrink_to"}
     /\ ~call.panic
     /\ call.args[1] < len(call.pre)) =>
        LET n == call.args[1]
        IN  /\ len(a) = n
            /\ \A m \in n + 1 .. MaxBits :
                   LET g == resize(a, m, FALSE)
                   IN  /\ len(g) = m
                       /\ \A i \in n .. m - 1 : get(g, i) = Ok(Some(FALSE))
            /\ \A index \in n .. MaxBits - 1, flag \in BOOLEAN :
                   LET r == set(a, index, flag)
                   IN  /\ ~r.panic
                       /\ len(r.v) = index + 1
                       /\ \A i \in n .. index - 1 : get(r.v, i) = Ok(Some(FALSE))
                       /\ get(r.v, index) = Ok(Some(flag))

\* a shrink to a length inside a lane that cut off set positions in the
\* boundary lane and in a later block.
C24_Witness ==
    /\ call.op \in {"resize", "shrink_to"} /\ ~call.panic
    /\ call.args[1] < len(call.pre)
    /\ call.args[1] % ELEMENT_BIT_WIDTH # 0
    /\ get(call.pre, call.args[1]) = Ok(Some(TRUE))
    /\ len(call.pre) > BIT_WIDTH
    /\ get(call.pre, len(call.pre) - 1) = Ok(Some(TRUE))

====
